---- MODULE Spec2Model ----
(***************************************************************************)
(* Number guessing game (src/sujal/number_guessing_game.py).               *)
(*                                                                         *)
(* One NumberGuessingGame object per game process; every process talks to  *)
(* the same MySQL table `users`.  A Tk callback runs to completion before  *)
(* the next event of the same process is handled, so a callback is one     *)
(* action.  The connection is opened with autocommit, so across processes  *)
(* the unit of atomicity is one SQL statement.                             *)
(*                                                                         *)
(* Text typed into an Entry is a sequence of one-character strings.        *)
(* Python's None and SQL's NULL are the empty tuple <<>>, a present value  *)
(* v is <<v>>.                                                             *)
(***************************************************************************)
EXTENDS Integers, Sequences, FiniteSets

VARIABLES
    users,          \* the rows of table `users`
    screen,         \* per process: the screen on display / position in game_won
    current_user,   \* per process: self.current_user
    target_number,  \* per process: self.target_number
    attempts,       \* per process: self.attempts
    min_range,      \* per process: self.min_range
    max_range,      \* per process: self.max_range
    outcome,        \* per process: the message last shown (feedback label or message box)
    current_best,   \* per process: game_won's local current_best
    is_new_best,    \* per process: game_won's local is_new_best
    scores,         \* per process: the rows show_scoreboard fetched and displays
    evaluated,      \* per process: history, the guesses compared to the target since the last start
    guessed         \* per process: history kept by SpecLive, the in-range values guessed since the last start

vars == <<users, screen, current_user, target_number, attempts, min_range,
          max_range, outcome, current_best, is_new_best, scores, evaluated,
          guessed>>

Procs == {"p1", "p2"}

None == <<>>

Some(v) == <<v>>

(***************************************************************************)
(* Program constants.                                                      *)
(***************************************************************************)
DefaultMin == 1

DefaultMax == 100

MinSpan == 5

MinUsernameLen == 3

MinPasswordLen == 4

(***************************************************************************)
(* Bounds of the model.                                                    *)
(***************************************************************************)
\* attempts is an unbounded counter in the code; a specification takes a
\* guess only if it leaves attempts <= MaxAttempts.
MaxAttempts == 2

\* the same bound in the specification of the longer games (SpecSettings)
MaxLongGame == 3

(***************************************************************************)
(* Text: str.strip(), int(), str().                                        *)
(***************************************************************************)
IsSpace(c) == c = " "

RECURSIVE lstrip(_)
lstrip(s) == IF s # <<>> /\ IsSpace(Head(s)) THEN lstrip(Tail(s)) ELSE s

RECURSIVE rstrip(_)
rstrip(s) ==
    IF s # <<>> /\ IsSpace(s[Len(s)]) THEN rstrip(SubSeq(s, 1, Len(s) - 1)) ELSE s

strip(s) == rstrip(lstrip(s))

Digits == <<"0", "1", "2", "3", "4", "5", "6", "7", "8", "9">>

IsDigit(c) == \E i \in 1..10 : Digits[i] = c

DigitVal(c) == (CHOOSE i \in 1..10 : Digits[i] = c) - 1

RECURSIVE DigitsValue(_)
DigitsValue(s) ==
    IF s = <<>> THEN 0
    ELSE 10 * DigitsValue(SubSeq(s, 1, Len(s) - 1)) + DigitVal(s[Len(s)])

\* int(text): surrounding whitespace is ignored, an optional sign, then one or
\* more decimal digits; anything else raises ValueError (None here).
ParseInt(text) ==
    LET t == strip(text)
        signed == t # <<>> /\ Head(t) \in {"+", "-"}
        body == IF signed THEN Tail(t) ELSE t
    IN  IF body = <<>> \/ \E i \in 1..Len(body) : ~IsDigit(body[i])
        THEN None
        ELSE IF signed /\ Head(t) = "-"
             THEN Some(0 - DigitsValue(body))
             ELSE Some(DigitsValue(body))

RECURSIVE NatStr(_)
NatStr(n) ==
    IF n < 10 THEN <<Digits[n + 1]>>
    ELSE NatStr(n \div 10) \o <<Digits[(n % 10) + 1]>>

\* str(n)
Str(n) == IF n < 0 THEN <<"-">> \o NatStr(0 - n) ELSE NatStr(n)

(***************************************************************************)
(* Account store: table `users` and the statements run against it.         *)
(***************************************************************************)
\* hashlib.sha256(password.encode()).hexdigest(): a digest that is a function
\* of the cleartext alone and differs for different cleartexts.
hash_password(password) == <<"sha256">> \o password

\* the column without its UNIQUE constraint
UniqueViolation_Never(us, username) == FALSE

\* username VARCHAR(50) UNIQUE NOT NULL
UniqueViolation(us, username) == \E r \in us : r.username = username

\* id INT AUTO_INCREMENT PRIMARY KEY (no row is ever deleted)
NextId(us) == Cardinality(us) + 1

\* the INSERT on a table whose best_score column has DEFAULT 0
NewRow_DefaultZero(us, username, password_hash) ==
    [id |-> NextId(us), username |-> username,
     password_hash |-> password_hash, best_score |-> Some(0)]

\* INSERT INTO users (username, password_hash) VALUES (%s, %s);
\* best_score INT DEFAULT NULL
NewRow(us, username, password_hash) ==
    [id |-> NextId(us), username |-> username,
     password_hash |-> password_hash, best_score |-> None]

\* The table after the INSERT; an IntegrityError leaves it as it was.
InsertUser(us, username, password_hash) ==
    IF UniqueViolation(us, username) THEN us
    ELSE us \cup {NewRow(us, username, password_hash)}

\* the credentials query without its password condition
SelectCredentials_UsernameOnly(us, username, password_hash) ==
    {r \in us : r.username = username}

\* SELECT username FROM users WHERE username = %s AND password_hash = %s
SelectCredentials(us, username, password_hash) ==
    {r \in us : r.username = username /\ r.password_hash = password_hash}

\* SELECT best_score FROM users WHERE username = %s, then fetchone():
\* the possible values of `result` (None when no row matches).
SelectBestScore(us, user) ==
    LET rows == {r \in us : user # None /\ r.username = user[1]}
    IN  IF rows = {} THEN {None} ELSE {Some(r.best_score) : r \in rows}

\* current_best = result[0] if result and result[0] else None
CurrentBest(result) ==
    IF result # None /\ result[1] # None /\ result[1][1] # 0 THEN result[1] ELSE None

\* the comparison with <= where the code has <
IsNewBest_OrEqual(best, n) == best = None \/ n <= best[1]

\* if current_best is None or self.attempts < current_best
IsNewBest(best, n) == best = None \/ n < best[1]

\* the UPDATE without its WHERE clause
UpdateBestScore_EveryRow(us, user, n) == {[r EXCEPT !.best_score = Some(n)] : r \in us}

\* UPDATE users SET best_score = %s WHERE username = %s
UpdateBestScore(us, user, n) ==
    {IF user # None /\ r.username = user[1]
     THEN [r EXCEPT !.best_score = Some(n)] ELSE r : r \in us}

\* the UPDATE run whatever current_best is
RecordWin_Unconditional(us, user, best, n) == UpdateBestScore(us, user, n)

\* The table once game_won has run its conditional UPDATE.
RecordWin(us, user, best, n) ==
    IF IsNewBest(best, n) THEN UpdateBestScore(us, user, n) ELSE us

\* LIMIT 10 of show_scoreboard's query
LeaderboardLimit == 10

\* WHERE best_score IS NOT NULL
Winners(us) == {r \in us : r.best_score # None}

\* ORDER BY best_score ASC LIMIT limit: every sequence the server may return,
\* rows of equal best_score coming in any order.
RECURSIVE OrderByBestScore(_, _)
OrderByBestScore(rows, limit) ==
    IF rows = {} \/ limit = 0
    THEN {<<>>}
    ELSE LET least == {r \in rows :
                          \A x \in rows : r.best_score[1] <= x.best_score[1]}
         IN  UNION {{<<<<r.username, r.best_score[1]>>>> \o rest :
                         rest \in OrderByBestScore(rows \ {r}, limit - 1)} :
                    r \in least}

\* the query without its LIMIT
SelectScoreboard_NoLimit(us) == OrderByBestScore(Winners(us), Cardinality(us))

\* SELECT username, best_score FROM users WHERE best_score IS NOT NULL
\* ORDER BY best_score ASC LIMIT 10, then fetchall()
SelectScoreboard(us) == OrderByBestScore(Winners(us), LeaderboardLimit)

(***************************************************************************)
(* Pure decisions of the handlers.                                         *)
(***************************************************************************)
\* the validation without the comparison of password and confirmation
RegisterValidation_NoConfirm(username, password, confirm) ==
    IF username = <<>> \/ password = <<>> THEN "EmptyFields"
    ELSE IF Len(username) < MinUsernameLen THEN "UsernameTooShort"
    ELSE IF Len(password) < MinPasswordLen THEN "PasswordTooShort"
    ELSE "Valid"

\* register(): the four validation checks, in the order of the code; the
\* message of the first that fails, or "Valid".
RegisterValidation(username, password, confirm) ==
    IF username = <<>> \/ password = <<>> THEN "EmptyFields"
    ELSE IF Len(username) < MinUsernameLen THEN "UsernameTooShort"
    ELSE IF Len(password) < MinPasswordLen THEN "PasswordTooShort"
    ELSE IF password # confirm THEN "PasswordMismatch"
    ELSE "Valid"

\* the span check with <= where the code has <
ValidateSettings_SpanOffByOne(min_val, max_val) ==
    IF min_val >= max_val THEN "InvalidOrder"
    ELSE IF max_val - min_val <= MinSpan THEN "RangeTooSmall"
    ELSE "SettingsSaved"

\* the span check left out
ValidateSettings_NoSpan(min_val, max_val) ==
    IF min_val >= max_val THEN "InvalidOrder" ELSE "SettingsSaved"

\* save_settings(): the two range checks, in the order of the code.
ValidateSettings(min_val, max_val) ==
    IF min_val >= max_val THEN "InvalidOrder"
    ELSE IF max_val - min_val < MinSpan THEN "RangeTooSmall"
    ELSE "SettingsSaved"

\* the range check without its upper half
OutOfRange_LowerOnly(guess, lo, hi) == guess < lo

\* check_guess(): if guess < self.min_range or guess > self.max_range
OutOfRange(guess, lo, hi) == guess < lo \/ guess > hi

\* the comparison with <= where the code has <
GuessOutcome_OffByOne(guess, target) ==
    IF guess <= target THEN "TooLow"
    ELSE IF guess > target THEN "TooHigh"
    ELSE "Correct"

\* check_guess(): the three-way comparison against the target.
GuessOutcome(guess, target) ==
    IF guess < target THEN "TooLow"
    ELSE IF guess > target THEN "TooHigh"
    ELSE "Correct"

\* the upper end left out, as random.randrange(a, b) does
RandInt_Exclusive(a, b) == a..(b - 1)

\* one number past the upper end
RandInt_OnePast(a, b) == a..(b + 1)

\* random.randint(a, b): any integer of the inclusive range.
RandInt(a, b) == a..b

(***************************************************************************)
(* Initial state: __init__ of every process, an empty table.               *)
(***************************************************************************)
\* history: no value guessed yet
NoGuesses == [seen |-> {}, repeat |-> FALSE]

Init ==
    /\ users = {}
    /\ screen = [p \in Procs |-> "login"]
    /\ current_user = [p \in Procs |-> None]
    /\ target_number = [p \in Procs |-> None]
    /\ attempts = [p \in Procs |-> 0]
    /\ min_range = [p \in Procs |-> DefaultMin]
    /\ max_range = [p \in Procs |-> DefaultMax]
    /\ outcome = [p \in Procs |-> "NoMessage"]
    /\ current_best = [p \in Procs |-> None]
    /\ is_new_best = [p \in Procs |-> FALSE]
    /\ scores = [p \in Procs |-> <<>>]
    /\ evaluated = [p \in Procs |-> 0]
    /\ guessed = [p \in Procs |-> NoGuesses]

(***************************************************************************)
(* Screens.  clear_window() destroys the feedback label, so a handler that *)
(* only rebuilds the window leaves no message and no score row on display. *)
(***************************************************************************)
Show(p, s) ==
    /\ screen' = [screen EXCEPT ![p] = s]
    /\ outcome' = [outcome EXCEPT ![p] = "NoMessage"]
    /\ scores' = [scores EXCEPT ![p] = <<>>]

\* register_link on the login screen
ShowRegisterScreen(p) ==
    /\ screen[p] = "login"
    /\ Show(p, "register")
    /\ UNCHANGED <<users, current_user, target_number, attempts, min_range,
                   max_range, current_best, is_new_best, evaluated, guessed>>

\* back_link on the register screen
ShowLoginScreen(p) ==
    /\ screen[p] = "register"
    /\ Show(p, "login")
    /\ UNCHANGED <<users, current_user, target_number, attempts, min_range,
                   max_range, current_best, is_new_best, evaluated, guessed>>

\* settings_btn on the main menu
ShowSettings(p) ==
    /\ screen[p] = "menu"
    /\ Show(p, "settings")
    /\ UNCHANGED <<users, current_user, target_number, attempts, min_range,
                   max_range, current_best, is_new_best, evaluated, guessed>>

\* scoreboard_btn on the main menu: show_scoreboard
ShowScoreboard(p) ==
    /\ screen[p] = "menu"
    /\ screen' = [screen EXCEPT ![p] = "scoreboard"]
    /\ outcome' = [outcome EXCEPT ![p] = "NoMessage"]
    /\ \E rows \in SelectScoreboard(users) :
           scores' = [scores EXCEPT ![p] = rows]
    /\ UNCHANGED <<users, current_user, target_number, attempts, min_range,
                   max_range, current_best, is_new_best, evaluated, guessed>>

\* back_btn of the settings, game and scoreboard screens: show_main_menu
ShowMainMenu(p) ==
    /\ screen[p] \in {"settings", "game", "scoreboard"}
    /\ Show(p, "menu")
    /\ UNCHANGED <<users, current_user, target_number, attempts, min_range,
                   max_range, current_best, is_new_best, evaluated, guessed>>

(***************************************************************************)
(* Accounts.                                                               *)
(***************************************************************************)
\* login with one message for an unknown username and another for a wrong
\* password
Login_NamesTheCause(p, username_text, password) ==
    /\ screen[p] = "login"
    /\ LET username == strip(username_text)
       IN  IF username = <<>> \/ password = <<>>
           THEN /\ outcome' = [outcome EXCEPT ![p] = "EmptyFields"]
                /\ UNCHANGED <<screen, current_user>>
           ELSE IF SelectCredentials(users, username, hash_password(password)) # {}
           THEN /\ current_user' = [current_user EXCEPT ![p] = Some(username)]
                /\ outcome' = [outcome EXCEPT ![p] = "WelcomeBack"]
                /\ screen' = [screen EXCEPT ![p] = "menu"]
           ELSE /\ outcome' = [outcome EXCEPT ![p] =
                                  IF \E r \in users : r.username = username
                                  THEN "WrongPassword" ELSE "UnknownUser"]
                /\ UNCHANGED <<screen, current_user>>
    /\ UNCHANGED <<users, target_number, attempts, min_range, max_range,
                   current_best, is_new_best, scores, evaluated,
                   guessed>>

Login(p, username_text, password) ==
    /\ screen[p] = "login"
    /\ LET username == strip(username_text)
       IN  IF username = <<>> \/ password = <<>>
           THEN /\ outcome' = [outcome EXCEPT ![p] = "EmptyFields"]
                /\ UNCHANGED <<screen, current_user>>
           ELSE IF SelectCredentials(users, username, hash_password(password)) # {}
           THEN /\ current_user' = [current_user EXCEPT ![p] = Some(username)]
                /\ outcome' = [outcome EXCEPT ![p] = "WelcomeBack"]
                /\ screen' = [screen EXCEPT ![p] = "menu"]
           ELSE /\ outcome' = [outcome EXCEPT ![p] = "InvalidCredentials"]
                /\ UNCHANGED <<screen, current_user>>
    /\ UNCHANGED <<users, target_number, attempts, min_range, max_range,
                   current_best, is_new_best, scores, evaluated,
                   guessed>>

Register(p, username_text, password, confirm) ==
    /\ screen[p] = "register"
    /\ LET username == strip(username_text)
           verdict == RegisterValidation(username, password, confirm)
       IN  IF verdict # "Valid"
           THEN /\ outcome' = [outcome EXCEPT ![p] = verdict]
                /\ UNCHANGED <<users, screen>>
           ELSE IF UniqueViolation(users, username)
           THEN /\ outcome' = [outcome EXCEPT ![p] = "DuplicateUsername"]
                /\ users' = InsertUser(users, username, hash_password(password))
                /\ UNCHANGED screen
           ELSE /\ users' = InsertUser(users, username, hash_password(password))
                /\ outcome' = [outcome EXCEPT ![p] = "AccountCreated"]
                /\ screen' = [screen EXCEPT ![p] = "login"]
    /\ UNCHANGED <<current_user, target_number, attempts, min_range, max_range,
                   current_best, is_new_best, scores, evaluated,
                   guessed>>

\* logout that shows the login screen and leaves current_user set
Logout_UserKept(p) ==
    /\ screen[p] = "menu"
    /\ Show(p, "login")
    /\ UNCHANGED <<users, current_user, target_number, attempts, min_range,
                   max_range, current_best, is_new_best, evaluated, guessed>>

Logout(p) ==
    /\ screen[p] = "menu"
    /\ current_user' = [current_user EXCEPT ![p] = None]
    /\ Show(p, "login")
    /\ UNCHANGED <<users, target_number, attempts, min_range, max_range,
                   current_best, is_new_best, evaluated, guessed>>

(***************************************************************************)
(* Settings.                                                               *)
(***************************************************************************)
SaveSettings(p, min_text, max_text) ==
    /\ screen[p] = "settings"
    /\ LET min_val == ParseInt(min_text)
           max_val == ParseInt(max_text)
       IN  IF min_val = None \/ max_val = None
           THEN /\ outcome' = [outcome EXCEPT ![p] = "InvalidNumber"]
                /\ UNCHANGED <<screen, min_range, max_range>>
           ELSE LET verdict == ValidateSettings(min_val[1], max_val[1])
                IN  IF verdict # "SettingsSaved"
                    THEN /\ outcome' = [outcome EXCEPT ![p] = verdict]
                         /\ UNCHANGED <<screen, min_range, max_range>>
                    ELSE /\ min_range' = [min_range EXCEPT ![p] = min_val[1]]
                         /\ max_range' = [max_range EXCEPT ![p] = max_val[1]]
                         /\ outcome' = [outcome EXCEPT ![p] = verdict]
                         /\ screen' = [screen EXCEPT ![p] = "menu"]
    /\ UNCHANGED <<users, current_user, target_number, attempts, current_best,
                   is_new_best, scores, evaluated,
                   guessed>>

(***************************************************************************)
(* The game.                                                               *)
(***************************************************************************)
\* start_game that leaves attempts as the last game left it
NewGame_AttemptsKept(p, target) ==
    /\ target \in RandInt(min_range[p], max_range[p])
    /\ target_number' = [target_number EXCEPT ![p] = Some(target)]
    /\ evaluated' = [evaluated EXCEPT ![p] = 0]
    /\ guessed' = [guessed EXCEPT ![p] = NoGuesses]
    /\ Show(p, "game")
    /\ current_best' = [current_best EXCEPT ![p] = None]
    /\ is_new_best' = [is_new_best EXCEPT ![p] = FALSE]
    /\ UNCHANGED <<users, current_user, min_range, max_range, attempts>>

\* start_game with `target` the number random.randint returned
NewGame(p, target) ==
    /\ target \in RandInt(min_range[p], max_range[p])
    /\ target_number' = [target_number EXCEPT ![p] = Some(target)]
    /\ attempts' = [attempts EXCEPT ![p] = 0]
    /\ evaluated' = [evaluated EXCEPT ![p] = 0]
    /\ guessed' = [guessed EXCEPT ![p] = NoGuesses]
    /\ Show(p, "game")
    /\ current_best' = [current_best EXCEPT ![p] = None]
    /\ is_new_best' = [is_new_best EXCEPT ![p] = FALSE]
    /\ UNCHANGED <<users, current_user, min_range, max_range>>

\* play_btn on the main menu
StartGame(p, target) ==
    /\ screen[p] = "menu"
    /\ NewGame(p, target)

\* game_won recording the attempts made before the winning guess
GameWon_BeforeCounting(p, n, atomic) ==
    \E result \in SelectBestScore(users, current_user[p]) :
        LET best == CurrentBest(result)
        IN  /\ current_best' = [current_best EXCEPT ![p] = best]
            /\ IF atomic
               THEN /\ users' = RecordWin(users, current_user[p], best, n - 1)
                    /\ is_new_best' =
                           [is_new_best EXCEPT ![p] = IsNewBest(best, n - 1)]
                    /\ screen' = [screen EXCEPT ![p] = "play_again"]
               ELSE /\ screen' = [screen EXCEPT ![p] = "game_won"]
                    /\ UNCHANGED <<users, is_new_best>>

\* game_won that records the win and leaves the game screen as it is
GameWon_ScreenKept(p, n, atomic) ==
    \E result \in SelectBestScore(users, current_user[p]) :
        LET best == CurrentBest(result)
        IN  /\ current_best' = [current_best EXCEPT ![p] = best]
            /\ users' = RecordWin(users, current_user[p], best, n)
            /\ is_new_best' = [is_new_best EXCEPT ![p] = IsNewBest(best, n)]
            /\ UNCHANGED screen

\* game_won with n = self.attempts.  Within one process the SELECT and the
\* UPDATE follow each other with nothing in between (atomic); against other
\* processes the handler stops after the SELECT and GameWonUpdate continues.
GameWon(p, n, atomic) ==
    \E result \in SelectBestScore(users, current_user[p]) :
        LET best == CurrentBest(result)
        IN  /\ current_best' = [current_best EXCEPT ![p] = best]
            /\ IF atomic
               THEN /\ users' = RecordWin(users, current_user[p], best, n)
                    /\ is_new_best' = [is_new_best EXCEPT ![p] = IsNewBest(best, n)]
                    /\ screen' = [screen EXCEPT ![p] = "play_again"]
               ELSE /\ screen' = [screen EXCEPT ![p] = "game_won"]
                    /\ UNCHANGED <<users, is_new_best>>

\* history: 1 when `text` reads as an integer of the range in force, which is
\* a guess the game compares to the target, and 0 otherwise
Evaluated(p, text) ==
    IF \E guess \in {ParseInt(text)} :
           /\ guess # None
           /\ min_range[p] <= guess[1]
           /\ guess[1] <= max_range[p]
    THEN 1
    ELSE 0

\* check_guess of a game that is lost with the MaxAttempts-th wrong guess
GuessStep_AttemptLimit(p, text, atomic) ==
    /\ screen[p] = "game"
    /\ \E guess \in {ParseInt(text)} :
           IF guess = None
           THEN /\ outcome' = [outcome EXCEPT ![p] = "InvalidNumber"]
                /\ UNCHANGED <<users, screen, attempts, current_best, is_new_best>>
           ELSE IF OutOfRange(guess[1], min_range[p], max_range[p])
           THEN /\ outcome' = [outcome EXCEPT ![p] = "OutOfRange"]
                /\ UNCHANGED <<users, screen, attempts, current_best, is_new_best>>
           ELSE LET verdict == GuessOutcome(guess[1], target_number[p][1])
                IN  /\ attempts' = [attempts EXCEPT ![p] = attempts[p] + 1]
                    /\ outcome' = [outcome EXCEPT ![p] = verdict]
                    /\ IF verdict = "Correct"
                       THEN GameWon(p, attempts[p] + 1, atomic)
                       ELSE /\ screen' = [screen EXCEPT ![p] =
                                   IF attempts[p] + 1 >= MaxAttempts
                                   THEN "menu" ELSE "game"]
                            /\ UNCHANGED <<users, current_best, is_new_best>>
    /\ evaluated' = [evaluated EXCEPT ![p] = @ + Evaluated(p, text)]
    /\ UNCHANGED <<current_user, target_number, min_range, max_range, scores>>

GuessStep(p, text, atomic) ==
    /\ screen[p] = "game"
    /\ \E guess \in {ParseInt(text)} :
           IF guess = None
           THEN /\ outcome' = [outcome EXCEPT ![p] = "InvalidNumber"]
                /\ UNCHANGED <<users, screen, attempts, current_best, is_new_best>>
           ELSE IF OutOfRange(guess[1], min_range[p], max_range[p])
           THEN /\ outcome' = [outcome EXCEPT ![p] = "OutOfRange"]
                /\ UNCHANGED <<users, screen, attempts, current_best, is_new_best>>
           ELSE LET verdict == GuessOutcome(guess[1], target_number[p][1])
                IN  /\ attempts' = [attempts EXCEPT ![p] = attempts[p] + 1]
                    /\ outcome' = [outcome EXCEPT ![p] = verdict]
                    /\ IF verdict = "Correct"
                       THEN GameWon(p, attempts[p] + 1, atomic)
                       ELSE UNCHANGED <<users, screen, current_best, is_new_best>>
    /\ evaluated' = [evaluated EXCEPT ![p] = @ + Evaluated(p, text)]
    /\ UNCHANGED <<current_user, target_number, min_range, max_range, scores>>

\* check_guess, run by one process with no other process in between
CheckGuess(p, text) == GuessStep(p, text, TRUE) /\ UNCHANGED guessed

\* check_guess up to and including game_won's SELECT
CheckGuessSelect(p, text) == GuessStep(p, text, FALSE) /\ UNCHANGED guessed

\* game_won from the comparison of current_best to its message box
GameWonUpdate(p) ==
    /\ screen[p] = "game_won"
    /\ users' = RecordWin(users, current_user[p], current_best[p], attempts[p])
    /\ is_new_best' =
           [is_new_best EXCEPT ![p] = IsNewBest(current_best[p], attempts[p])]
    /\ screen' = [screen EXCEPT ![p] = "play_again"]
    /\ UNCHANGED <<current_user, target_number, attempts, min_range, max_range,
                   outcome, current_best, scores, evaluated,
                   guessed>>

\* askyesno answered yes: start_game
PlayAgainYes(p, target) ==
    /\ screen[p] = "play_again"
    /\ NewGame(p, target)

\* askyesno answered no: show_main_menu
PlayAgainNo(p) ==
    /\ screen[p] = "play_again"
    /\ Show(p, "menu")
    /\ current_best' = [current_best EXCEPT ![p] = None]
    /\ is_new_best' = [is_new_best EXCEPT ![p] = FALSE]
    /\ UNCHANGED <<users, current_user, target_number, attempts, min_range,
                   max_range, evaluated, guessed>>

(***************************************************************************)
(* What the player types, and the numbers the generator returns.           *)
(***************************************************************************)
Bob == <<"b", "o", "b">>

Amy == <<"a", "m", "y">>

Abcd == <<"a", "b", "c", "d">>

Wxyz == <<"w", "x", "y", "z">>

\* usernames: empty, blank, too short once stripped, padded, two valid ones
UsernameTexts ==
    {<<>>, <<" ">>, <<"a", "b">>, <<"a", "b", " ">>, Bob, <<" ">> \o Bob \o <<" ">>, Amy}

\* passwords: empty, too short, two valid ones
PasswordTexts == {<<>>, <<"a", "b", "c">>, Abcd, Wxyz}

\* numbers typed into the settings screen, crossed with each other
SettingNums == {1, 5, 6}

\* pairs of numbers typed into the settings screen
SettingNumPairs ==
    (SettingNums \X SettingNums)
        \cup {<<10, 12>>, <<50, 10>>, <<1, 100>>, <<0 - 9, 0 - 3>>, <<0 - 3, 0 - 9>>}

\* text typed into the settings screen that int() rejects
SettingJunk == {<<>>, <<"x">>, <<"-">>, <<"1", ".", "5">>}

\* pairs typed into the settings screen: the numbers, text that is no integer
\* next to a number, and text that is an integer only to int()
SettingPairs ==
    {<<Str(ab[1]), Str(ab[2])>> : ab \in SettingNumPairs}
        \cup {<<g, Str(6)>> : g \in SettingJunk}
        \cup {<<Str(1), g>> : g \in SettingJunk}
        \cup {<<<<"x">>, <<"x">>>>, <<<<" ", "1">>, <<"+", "6", " ">>>>}

\* a few pairs typed into the settings screen
FewSettingPairs ==
    {<<Str(95), Str(100)>>, <<Str(1), Str(100)>>, <<Str(100), Str(95)>>,
     <<Str(96), Str(100)>>, <<<<"x">>, Str(100)>>}

\* guesses: around both ends of the range and around the target, the target
\* with blanks around it, and text that is no integer
GuessTexts(p) ==
    LET t == target_number[p][1]
    IN  {Str(n) : n \in {min_range[p] - 1, min_range[p], max_range[p],
                         max_range[p] + 1, t - 1, t, t + 1}}
            \cup {<<" ">> \o Str(t) \o <<" ">>, <<>>, <<"x">>, Str(t) \o <<".", "0">>}

\* guesses that do not depend on the target
FixedGuessTexts == {Str(25), Str(50)}

\* the ends of the range and 42, in place of every number the generator can
\* return
DrawSample(p) ==
    {min_range[p], max_range[p]} \cup ({42} \cap RandInt(min_range[p], max_range[p]))

\* the low end of the range alone
DrawLow(p) == {min_range[p]}

(***************************************************************************)
(* Five specifications over the same handlers.  Each explores one side of  *)
(* the program in full and samples the others.                             *)
(*                                                                         *)
(* Spec: one game process, every number the generator can return.          *)
(***************************************************************************)
Navigate(p) ==
    \/ ShowRegisterScreen(p)
    \/ ShowLoginScreen(p)
    \/ ShowSettings(p)
    \/ ShowScoreboard(p)
    \/ ShowMainMenu(p)
    \/ Logout(p)
    \/ PlayAgainNo(p)

Next ==
    \E p \in {"p1"} :
        \/ Navigate(p)
        \/ \E u \in {<<"a", "b">>, Bob}, w, c \in {<<"a", "b", "c">>, Abcd} :
               Register(p, u, w, c)
        \/ \E u \in {<<>>, Bob}, w \in {Abcd, Wxyz} : Login(p, u, w)
        \/ \E ab \in FewSettingPairs : SaveSettings(p, ab[1], ab[2])
        \/ \E t \in RandInt(min_range[p], max_range[p]) : StartGame(p, t)
        \/ \E t \in RandInt(min_range[p], max_range[p]) : PlayAgainYes(p, t)
        \/ /\ screen[p] = "game"
           /\ \E g \in GuessTexts(p) :
                  CheckGuess(p, g) /\ attempts'[p] <= MaxAttempts

Spec == Init /\ [][Next]_vars

(***************************************************************************)
(* SpecStore: one game process, every username and password text, the      *)
(* generator sampled at the low end of the range.                          *)
(***************************************************************************)
NextStore ==
    \E p \in {"p1"} :
        \/ Navigate(p)
        \/ \E u \in UsernameTexts, w, c \in PasswordTexts : Register(p, u, w, c)
        \/ \E u \in UsernameTexts, w \in PasswordTexts : Login(p, u, w)
        \/ \E ab \in FewSettingPairs : SaveSettings(p, ab[1], ab[2])
        \/ \E t \in DrawLow(p) : StartGame(p, t)
        \/ \E t \in DrawLow(p) : PlayAgainYes(p, t)
        \/ /\ screen[p] = "game"
           /\ \E g \in GuessTexts(p) :
                  CheckGuess(p, g) /\ attempts'[p] <= MaxAttempts

SpecStore == Init /\ [][NextStore]_vars

(***************************************************************************)
(* SpecSettings: one game process, every pair of settings texts, the       *)
(* generator sampled at both ends of the range and at 42, longer games.    *)
(***************************************************************************)
NextSettings ==
    \E p \in {"p1"} :
        \/ Navigate(p)
        \/ \E u \in {Bob}, w, c \in {Abcd, Wxyz} : Register(p, u, w, c)
        \/ \E u \in {Bob}, w \in {Abcd, Wxyz} : Login(p, u, w)
        \/ \E ab \in SettingPairs : SaveSettings(p, ab[1], ab[2])
        \/ \E t \in DrawSample(p) : StartGame(p, t)
        \/ \E t \in DrawSample(p) : PlayAgainYes(p, t)
        \/ /\ screen[p] = "game"
           /\ \E g \in GuessTexts(p) \cup FixedGuessTexts :
                  CheckGuess(p, g) /\ attempts'[p] <= MaxLongGame

SpecSettings == Init /\ [][NextSettings]_vars

(***************************************************************************)
(* SpecShared: two game processes on the same table, the generator sampled *)
(* at the low end of the range.  game_won is split at its two SQL          *)
(* statements, between which the other process may run.  The first process *)
(* saves settings, the second plays in the default range.                  *)
(***************************************************************************)
NextShared ==
    \E p \in Procs :
        \/ Navigate(p)
        \/ \E u \in {Bob}, w, c \in {Abcd, Wxyz} : Register(p, u, w, c)
        \/ \E u \in {Bob}, w \in {Abcd, Wxyz} : Login(p, u, w)
        \/ \E ab \in {<<Str(95), Str(100)>>, <<Str(100), Str(95)>>} :
               p = "p1" /\ SaveSettings(p, ab[1], ab[2])
        \/ \E t \in DrawLow(p) : StartGame(p, t)
        \/ \E t \in DrawLow(p) : PlayAgainYes(p, t)
        \/ /\ screen[p] = "game"
           /\ \E g \in GuessTexts(p) :
                  CheckGuessSelect(p, g) /\ attempts'[p] <= MaxAttempts
        \/ GameWonUpdate(p)

SpecShared == Init /\ [][NextShared]_vars

(***************************************************************************)
(* SpecBoard: the scoreboard over tables of up to MaxBoardUsers accounts,   *)
(* more than the query's LIMIT.  The table is one that registrations and   *)
(* wins of earlier runs have left; the process has logged in as the first  *)
(* account and moves between the main menu and the scoreboard.             *)
(***************************************************************************)
\* accounts on the table of SpecBoard
MaxBoardUsers == 12

\* the username of the i-th account: bob1, bob2, ...
BoardName(i) == Bob \o Str(i)

\* how the best scores lie on the table
BoardPatterns == {"nobody", "ascending", "descending", "all_but_one", "pairs", "thirds"}

\* best_score of the i-th of n accounts
BoardScore(k, n, i) ==
    CASE k = "nobody" -> None
      [] k = "ascending" -> Some(i)
      [] k = "descending" -> Some(n + 1 - i)
      [] k = "all_but_one" -> IF i = 2 THEN None ELSE Some(n + 1 - i)
      [] k = "pairs" -> Some((i \div 2) + 1)
      [] k = "thirds" -> IF i % 3 = 0 THEN None
                         ELSE IF i % 3 = 1 THEN Some(3) ELSE Some(1)

\* the table of n accounts with best scores in pattern k
BoardTable(n, k) ==
    {[id |-> i, username |-> BoardName(i),
      password_hash |-> hash_password(Abcd), best_score |-> BoardScore(k, n, i)] :
        i \in 1..n}

InitBoard ==
    /\ \E n \in 1..MaxBoardUsers, k \in BoardPatterns : users = BoardTable(n, k)
    /\ screen = [p \in Procs |-> IF p = "p1" THEN "menu" ELSE "login"]
    /\ current_user = [p \in Procs |-> IF p = "p1" THEN Some(BoardName(1)) ELSE None]
    /\ target_number = [p \in Procs |-> None]
    /\ attempts = [p \in Procs |-> 0]
    /\ min_range = [p \in Procs |-> DefaultMin]
    /\ max_range = [p \in Procs |-> DefaultMax]
    /\ outcome = [p \in Procs |-> "NoMessage"]
    /\ current_best = [p \in Procs |-> None]
    /\ is_new_best = [p \in Procs |-> FALSE]
    /\ scores = [p \in Procs |-> <<>>]
    /\ evaluated = [p \in Procs |-> 0]
    /\ guessed = [p \in Procs |-> NoGuesses]

NextBoard ==
    \E p \in {"p1"} :
        \/ ShowScoreboard(p)
        \/ ShowMainMenu(p)

SpecBoard == InitBoard /\ [][NextBoard]_vars

(***************************************************************************)
(* SpecLive: one game process whose player sooner or later submits the     *)
(* target.  game_won is split at its two SQL statements.  The history      *)
(* `guessed` remembers the in-range values submitted since the start and   *)
(* whether one of them was submitted twice.  Wrong guesses are taken while *)
(* they leave attempts <= MaxLiveAttempts, the target one guess longer.    *)
(* Games are played in a range of the least span, so that a player can     *)
(* guess every number of it.                                               *)
(*                                                                         *)
(* Fairness: the claim's assumption on the player is weak fairness of      *)
(* SubmitTarget, which stays enabled while the game is in progress.        *)
(* game_won is one callback that runs its SELECT and its UPDATE decision   *)
(* without waiting for an event, hence weak fairness of GameWonUpdate.     *)
(***************************************************************************)
\* wrong guesses taken in one game of SpecLive
MaxLiveAttempts == 5

\* history: `text` submitted as a guess
Remember(p, text) ==
    \E guess \in {ParseInt(text)} :
        guessed' =
            [guessed EXCEPT ![p] =
                IF Evaluated(p, text) = 1
                THEN [seen |-> @.seen \cup {guess[1]},
                      repeat |-> @.repeat \/ guess[1] \in @.seen]
                ELSE @]

\* check_guess up to game_won's SELECT, the history kept
CheckGuessRemembered(p, text) == GuessStep(p, text, FALSE) /\ Remember(p, text)

\* the player submits the target
SubmitTarget(p) ==
    /\ screen[p] = "game"
    /\ \E g \in {Str(target_number[p][1])} :
           CheckGuessRemembered(p, g) /\ attempts'[p] <= MaxLiveAttempts + 1

\* guesses other than the target: every other number of the range, the
\* number above it and text that is no integer
WrongGuessTexts(p) ==
    {Str(n) : n \in (min_range[p]..(max_range[p] + 1)) \ {target_number[p][1]}}
        \cup {<<"x">>}

\* the player of SpecLive starts a game once the range has the least span
NextLive ==
    \E p \in {"p1"} :
        \/ Navigate(p)
        \/ Register(p, Bob, Abcd, Abcd)
        \/ Login(p, Bob, Abcd)
        \/ SaveSettings(p, Str(1), Str(6))
        \/ /\ max_range[p] - min_range[p] = MinSpan
           /\ \E t \in DrawLow(p) : StartGame(p, t)
        \/ \E t \in DrawLow(p) : PlayAgainYes(p, t)
        \/ /\ screen[p] = "game"
           /\ \E g \in WrongGuessTexts(p) :
                  CheckGuessRemembered(p, g) /\ attempts'[p] <= MaxLiveAttempts
        \/ SubmitTarget(p)
        \/ GameWonUpdate(p)

SpecLive ==
    /\ Init
    /\ [][NextLive]_vars
    /\ \A p \in {"p1"} : WF_vars(SubmitTarget(p)) /\ WF_vars(GameWonUpdate(p))

(***************************************************************************)
(* Properties.                                                             *)
(***************************************************************************)
\* best_score of the row(s) of `username`
StoredBest(us, username) == {r.best_score : r \in {x \in us : x.username = username}}

\* numbers guessed in the properties below: both ends of the range, their
\* outer neighbours, the target and its neighbours
GuessNums(p) ==
    {min_range[p] - 1, min_range[p], max_range[p], max_range[p] + 1,
     target_number[p][1] - 1, target_number[p][1], target_number[p][1] + 1}

\* C1: in a game in progress, a guess v with min_range <= v <= max_range adds
\* exactly 1 to attempts and is answered TooLow iff v < target, TooHigh iff
\* v > target, Correct iff v = target; the game is won exactly when the answer
\* is Correct and stays in progress otherwise.
C1_GuessEvaluated ==
    [][\A p \in Procs :
         screen[p] = "game" =>
           \A v \in GuessNums(p) :
             (/\ min_range[p] <= v
              /\ v <= max_range[p]
              /\ CheckGuess(p, Str(v)))
             => /\ attempts'[p] = attempts[p] + 1
                /\ outcome'[p] = "TooLow" <=> v < target_number[p][1]
                /\ outcome'[p] = "TooHigh" <=> v > target_number[p][1]
                /\ outcome'[p] = "Correct" <=> v = target_number[p][1]
                /\ outcome'[p] \in {"TooLow", "TooHigh", "Correct"}
                /\ screen'[p] = "play_again" <=> outcome'[p] = "Correct"
                /\ outcome'[p] # "Correct" => screen'[p] = "game"]_vars

\* a game won at the second evaluated guess, the first having been too high
C1_Witness ==
    \E p \in Procs :
        /\ screen[p] = "play_again"
        /\ outcome[p] = "Correct"
        /\ attempts[p] = 2
        /\ target_number[p] = Some(min_range[p])

\* text typed as a guess that int() rejects
NotIntegers(p) == {<<>>, <<"x">>, <<" ">>, Str(target_number[p][1]) \o <<".", "0">>}

\* C2: a guess outside [min_range, max_range], or one that is no integer,
\* costs nothing: attempts, target, the state of the game and every row of the
\* table stay as they were, and the answer is OutOfRange (resp. the parse
\* error), never TooLow, TooHigh or Correct.
C2_RejectedGuessCostsNothing ==
    [][\A p \in Procs :
         screen[p] = "game" =>
           /\ \A v \in GuessNums(p) :
                ((v < min_range[p] \/ v > max_range[p]) /\ CheckGuess(p, Str(v)))
                => /\ outcome'[p] = "OutOfRange"
                   /\ UNCHANGED <<attempts, target_number, screen, users,
                                  current_user, min_range, max_range>>
           /\ \A g \in NotIntegers(p) :
                CheckGuess(p, g)
                => /\ outcome'[p] = "InvalidNumber"
                   /\ UNCHANGED <<attempts, target_number, screen, users,
                                  current_user, min_range, max_range>>]_vars

\* a guess above the range rejected after one guess was evaluated
C2_Witness ==
    \E p \in Procs :
        /\ screen[p] = "game"
        /\ outcome[p] = "OutOfRange"
        /\ attempts[p] = 1
        /\ target_number[p] = Some(max_range[p])

\* C3: recording a win of n attempts for the logged-in user: when the stored
\* best_score is absent or n is below it, best_score becomes n and the win is
\* reported as a new best; otherwise (n equal to it included) best_score stays,
\* the win is reported as no new best, together with the previous best.
C3_RecordWin ==
    [][\A p \in Procs :
         (screen[p] = "game" /\ screen'[p] = "play_again") =>
           LET name == current_user[p][1]
               n == attempts'[p]
           IN  \A old \in StoredBest(users, name) :
                 IF old = None \/ n < old[1]
                 THEN /\ StoredBest(users', name) = {Some(n)}
                      /\ is_new_best'[p]
                 ELSE /\ StoredBest(users', name) = {old}
                      /\ ~is_new_best'[p]
                      /\ current_best'[p] = old]_vars

\* a win with as many attempts as the stored best, reported as no new best
C3_Witness ==
    \E p \in Procs :
        /\ screen[p] = "play_again"
        /\ ~is_new_best[p]
        /\ current_best[p] = Some(attempts[p])
        /\ StoredBest(users, current_user[p][1]) = {Some(attempts[p])}

\* the lower of a stored best_score and a number of attempts
MinBest(old, n) == IF old = None \/ n < old[1] THEN Some(n) ELSE old

\* C4: with one game process, every step leaves each user's best_score at the
\* minimum of its old value and the attempts of a win recorded for that user in
\* the step, and as it was when no win is recorded for that user; so it is the
\* minimum of all the wins recorded, never rises and is never absent again.
C4_BestIsMinimum ==
    [][\A r \in users :
         LET wins == {p \in Procs : /\ screen[p] = "game"
                                    /\ screen'[p] = "play_again"
                                    /\ current_user[p] = Some(r.username)}
             new == StoredBest(users', r.username)
         IN  /\ \A p \in wins : new = {MinBest(r.best_score, attempts'[p])}
             /\ wins = {} => new = {r.best_score}
             /\ \A b \in new : r.best_score # None =>
                                 b # None /\ b[1] <= r.best_score[1]]_vars

\* a win with more attempts than the stored best, which is kept
C4_Witness ==
    \E p \in Procs :
        /\ screen[p] = "play_again"
        /\ attempts[p] = 2
        /\ StoredBest(users, current_user[p][1]) = {Some(1)}
        /\ Cardinality(users) = 2

\* C5: game_won's SELECT and UPDATE are one unit per user: with two processes
\* recording wins for the same username in any interleaving, each recorded win
\* leaves the stored best_score at the minimum of what was stored and the
\* attempts of that win (no update is lost), and no step raises a best_score.
C5_RecordWinIsOneUnit ==
    [][/\ \A p \in Procs :
            (screen[p] = "game_won" /\ screen'[p] = "play_again") =>
              LET name == current_user[p][1]
              IN  \A old \in StoredBest(users, name) :
                    StoredBest(users', name) = {MinBest(old, attempts[p])}
       /\ \A r \in users : \A b \in StoredBest(users', r.username) :
            r.best_score # None => b # None /\ b[1] <= r.best_score[1]]_vars

\* C6: starting a game (from the menu or by playing again) with the settings
\* in force draws a target with min_range <= target <= max_range, every number
\* of that range being a possible target, sets attempts to 0 and puts the game
\* in progress.
C6_StartDrawsInRange ==
    /\ [](\A p \in Procs : \A t \in min_range[p]..max_range[p] :
            /\ screen[p] = "menu" => ENABLED StartGame(p, t)
            /\ screen[p] = "play_again" => ENABLED PlayAgainYes(p, t))
    /\ [][\A p \in Procs :
            (screen[p] \in {"menu", "play_again"} /\ screen'[p] = "game")
            => /\ target_number'[p] # None
               /\ min_range[p] <= target_number'[p][1]
               /\ target_number'[p][1] <= max_range[p]
               /\ attempts'[p] = 0
               /\ UNCHANGED <<min_range, max_range>>]_vars

\* a second game, just started with the top of the range as its target
C6_Witness ==
    \E p \in Procs :
        /\ screen[p] = "game"
        /\ attempts[p] = 0
        /\ target_number[p] = Some(max_range[p])
        /\ \E r \in users : r.best_score # None

\* C7: saving settings (a, b) is refused as InvalidOrder iff a >= b, as
\* RangeTooSmall iff a < b and b - a < 5, and accepted otherwise; accepted, a
\* and b become min_range and max_range; refused, or with text that is no
\* integer, min_range and max_range stay.  (10, 12) is RangeTooSmall,
\* (50, 10) InvalidOrder, (1, 100) accepted.
C7_ValidateSettings ==
    [][\A p \in Procs :
         screen[p] = "settings" =>
           /\ \A ab \in SettingNumPairs :
                LET a == ab[1]
                    b == ab[2]
                IN  SaveSettings(p, Str(a), Str(b))
                    => /\ outcome'[p] = "InvalidOrder" <=> a >= b
                       /\ outcome'[p] = "RangeTooSmall" <=> (a < b /\ b - a < 5)
                       /\ outcome'[p] = "SettingsSaved" <=> (a < b /\ b - a >= 5)
                       /\ outcome'[p] = "SettingsSaved"
                            => min_range'[p] = a /\ max_range'[p] = b
                       /\ outcome'[p] # "SettingsSaved"
                            => UNCHANGED <<min_range, max_range>>
           /\ \A g \in SettingJunk, n \in {<<"x">>, Str(1), Str(6)} :
                (SaveSettings(p, g, n) \/ SaveSettings(p, n, g))
                => /\ outcome'[p] = "InvalidNumber"
                   /\ UNCHANGED <<min_range, max_range>>
           /\ SaveSettings(p, Str(10), Str(12)) => outcome'[p] = "RangeTooSmall"
           /\ SaveSettings(p, Str(50), Str(10)) => outcome'[p] = "InvalidOrder"
           /\ SaveSettings(p, Str(1), Str(100)) => outcome'[p] = "SettingsSaved"]_vars

\* a range of exactly five apart accepted in place of another one
C7_Witness ==
    \E p \in Procs :
        /\ outcome[p] = "SettingsSaved"
        /\ max_range[p] - min_range[p] = MinSpan
        /\ target_number[p] # None

\* C8: in every reachable state min_range < max_range and
\* max_range - min_range >= 5, so no game is started on an invalid range.
C8_SettingsAlwaysValid ==
    \A p \in Procs :
        /\ min_range[p] < max_range[p]
        /\ max_range[p] - min_range[p] >= 5

\* a game in progress on a range other than the default one
C8_Witness ==
    \E p \in Procs :
        /\ screen[p] = "game"
        /\ <<min_range[p], max_range[p]>> # <<DefaultMin, DefaultMax>>
        /\ attempts[p] > 0

\* the registrations that fail one of the four checks
InvalidRegistrations ==
    {t \in UsernameTexts \X PasswordTexts \X PasswordTexts :
        \/ strip(t[1]) = <<>>
        \/ t[2] = <<>>
        \/ Len(strip(t[1])) < 3
        \/ Len(t[2]) < 4
        \/ t[2] # t[3]}

\* C9: register(username, password, confirm) with username or password
\* empty, a username shorter than 3, a password shorter than 4, or a password
\* other than its confirmation shows a validation error and leaves the table as
\* it was; so an insert is attempted only when all four checks pass.
C9_RegisterValidates ==
    [][\A p \in Procs :
         screen[p] = "register" =>
           \/ /\ outcome'[p] \in {"EmptyFields", "UsernameTooShort",
                                  "PasswordTooShort", "PasswordMismatch"}
              /\ UNCHANGED <<users, screen, current_user>>
           \/ \A t \in InvalidRegistrations : ~Register(p, t[1], t[2], t[3])]_vars

\* a registration refused for its confirmation, with an account in the table
C9_Witness ==
    \E p \in Procs :
        /\ screen[p] = "register"
        /\ outcome[p] = "PasswordMismatch"
        /\ users # {}

\* C10: the table never holds two rows with one username and never loses a
\* row; registering a username that has a row answers DuplicateUsername and
\* leaves the table (password_hash and best_score of that row included) as it
\* was, registering one that has none adds its row; so of two processes
\* registering the same username exactly one succeeds.
C10_UsernameUnique ==
    /\ [](\A r1, r2 \in users : r1.username = r2.username => r1 = r2)
    /\ [][/\ \A r \in users : \E r2 \in users' :
               /\ r2.id = r.id
               /\ r2.username = r.username
               /\ r2.password_hash = r.password_hash
          /\ \A p \in Procs :
               screen[p] = "register" =>
                 \A u \in {Bob}, w \in {Abcd, Wxyz} :
                   IF \E r \in users : r.username = u
                   THEN \/ /\ outcome'[p] = "DuplicateUsername"
                           /\ users' = users
                        \/ ~Register(p, u, w, w)
                   ELSE \/ /\ outcome'[p] = "AccountCreated"
                           /\ users' # users
                           /\ \E r \in users' : r.username = u
                        \/ ~Register(p, u, w, w)]_vars

\* two processes asked for the same username: one created it, the other was
\* refused
C10_Witness ==
    \E p, q \in Procs :
        /\ outcome[p] = "AccountCreated"
        /\ outcome[q] = "DuplicateUsername"
        /\ screen[q] = "register"
        /\ Cardinality(users) = 1

\* passwords that pass registration
ValidPasswords == {w \in PasswordTexts : Len(w) >= MinPasswordLen}

FilledLogins ==
    {t \in UsernameTexts \X PasswordTexts : strip(t[1]) # <<>> /\ t[2] # <<>>}

\* C12: a login that matches no row, whether the username is unknown or the
\* password is wrong, is answered InvalidCredentials and changes nothing else:
\* the table, current_user (unset) and the screen stay as they were, so every
\* failing pair of texts yields the same step and the two causes cannot be
\* told apart.  A login that matches a row does not write to the table either.
C12_FailedLoginTellsNothing ==
    [][\A p \in {"p1"} :
         screen[p] = "login" =>
           /\ current_user[p] = None
           /\ \A t \in FilledLogins :
                IF \E r \in users : /\ r.username = strip(t[1])
                                    /\ r.password_hash = hash_password(t[2])
                THEN \/ /\ users' = users
                        /\ outcome'[p] = "WelcomeBack"
                        /\ current_user'[p] = Some(strip(t[1]))
                     \/ ~Login(p, t[1], t[2])
                ELSE /\ \/ /\ outcome' = [outcome EXCEPT ![p] = "InvalidCredentials"]
                           /\ UNCHANGED <<users, screen, current_user, target_number,
                                          attempts, min_range, max_range,
                                          current_best, is_new_best, scores,
                                          evaluated>>
                        \/ ~Login(p, t[1], t[2])
                     /\ \/ outcome'[p] # "InvalidCredentials"
                        \/ Login(p, t[1], t[2])]_vars

\* a refused login on a table that holds an account with a recorded win:
\* nobody is logged in and the login screen is still up
C12_Witness ==
    \E p \in {"p1"} :
        /\ outcome[p] = "InvalidCredentials"
        /\ screen[p] = "login"
        /\ current_user[p] = None
        /\ \E r \in users : r.best_score # None

\* the smaller of two numbers
Min(a, b) == IF a <= b THEN a ELSE b

\* C13: the rows the scoreboard shows are the first 10 of the users with a
\* best score in ascending order of best score: each row is a user with its
\* stored non-null best score, no user twice, consecutive scores never
\* decrease, there are min(10, number of winners) rows, every listed score is
\* at most every unlisted winner's score, and there is no row when nobody has
\* won.  With best scores 3, 1 and none for the first three accounts the rows
\* are the second account with 1, then the first with 3.
C13_TopTen ==
    [][\A p \in Procs :
         (screen[p] = "menu" /\ screen'[p] = "scoreboard") =>
           LET s == scores'[p]
               won == {r \in users : r.best_score # None}
               listed == {s[i][1] : i \in 1..Len(s)}
           IN  /\ Len(s) = Min(10, Cardinality(won))
               /\ \A i \in 1..Len(s) :
                    \E r \in won : /\ r.username = s[i][1]
                                   /\ r.best_score = Some(s[i][2])
               /\ \A i, j \in 1..Len(s) : s[i][1] = s[j][1] => i = j
               /\ \A i \in 1..(Len(s) - 1) : s[i][2] <= s[i + 1][2]
               /\ \A r \in won :
                    r.username \notin listed =>
                      \A i \in 1..Len(s) : s[i][2] <= r.best_score[1]
               /\ won = {} => s = <<>>
               /\ users = BoardTable(3, "thirds") =>
                    s = << <<BoardName(2), 1>>, <<BoardName(1), 3>> >>]_vars

\* the scoreboard is full, a winner is left off it and one account has never
\* won
C13_Witness ==
    \E p \in Procs :
        /\ screen[p] = "scoreboard"
        /\ Len(scores[p]) = LeaderboardLimit
        /\ Cardinality({r \in users : r.best_score # None}) > LeaderboardLimit
        /\ \E r \in users : r.best_score = None

\* C14: when a game is won, attempts is the number of guesses compared to the
\* target since the start of that game (the correct one included, out-of-range
\* and unparseable ones not), and that number is what the win is recorded
\* with.  With target 42, the guesses 50, 25, 42 are answered TooHigh, TooLow,
\* Correct, attempts is 3 and, the user having no best score, 3 is stored as a
\* new best.
C14_AttemptsAtWin ==
    /\ [](\A p \in Procs :
            screen[p] \in {"game", "play_again"} => attempts[p] = evaluated[p])
    /\ [][\A p \in Procs :
            (screen[p] = "game" /\ screen'[p] = "play_again") =>
              LET name == current_user[p][1]
                  n == evaluated'[p]
              IN  /\ n = evaluated[p] + 1
                  /\ \A old \in StoredBest(users, name) :
                       /\ StoredBest(users', name) = {MinBest(old, n)}
                       /\ is_new_best'[p] = (old = None \/ n < old[1])]_vars
    /\ [][\A p \in Procs :
            (screen[p] = "game" /\ target_number[p] = Some(42)) =>
              /\ \/ outcome'[p] = "TooHigh" /\ evaluated'[p] = evaluated[p] + 1
                 \/ ~CheckGuess(p, Str(50))
              /\ \/ outcome'[p] = "TooLow" /\ evaluated'[p] = evaluated[p] + 1
                 \/ ~CheckGuess(p, Str(25))
              /\ \/ evaluated[p] # 2
                 \/ StoredBest(users, current_user[p][1]) # {None}
                 \/ /\ outcome'[p] = "Correct"
                    /\ screen'[p] = "play_again"
                    /\ attempts'[p] = 3
                    /\ is_new_best'[p]
                    /\ StoredBest(users', current_user[p][1]) = {Some(3)}
                 \/ ~CheckGuess(p, Str(42))]_vars

\* target 42 found with the third guess compared to it, after a guess that
\* was too high and one that was too low; 3 is the user's first best score
C14_Witness ==
    \E p \in Procs :
        /\ screen[p] = "play_again"
        /\ target_number[p] = Some(42)
        /\ attempts[p] = 3
        /\ evaluated[p] = 3
        /\ is_new_best[p]
        /\ current_best[p] = None
        /\ StoredBest(users, current_user[p][1]) = {Some(3)}

\* C15: a game in progress ends only by a guess equal to the target, which
\* wins it, or by the back button, which abandons it; there is no lost game.
\* Every other guess, compared or rejected, leaves the game in progress, and
\* whatever attempts has reached, the next wrong guess is taken and the game
\* goes on.
C15_NoLostGame ==
    /\ [][\A p \in Procs :
            screen[p] = "game" =>
              /\ screen'[p] \in {"game", "play_again", "menu"}
              /\ screen'[p] = "play_again" =>
                   /\ outcome'[p] = "Correct"
                   /\ \E g \in {Str(target_number[p][1]),
                                <<" ">> \o Str(target_number[p][1]) \o <<" ">>} :
                        CheckGuess(p, g)
              /\ screen'[p] = "menu" => ShowMainMenu(p)
              /\ \A v \in GuessNums(p) \ {target_number[p][1]} :
                   screen'[p] = "game" \/ ~CheckGuess(p, Str(v))
              /\ \A g \in NotIntegers(p) :
                   screen'[p] = "game" \/ ~CheckGuess(p, g)]_vars
    /\ [](\A p \in {"p1"} :
            screen[p] = "game" =>
              \A v \in {min_range[p], max_range[p]} \ {target_number[p][1]} :
                ENABLED (/\ CheckGuess(p, Str(v))
                         /\ screen'[p] = "game"
                         /\ target_number'[p] = target_number[p]))

\* as many wrong guesses as the model takes, and the game is still in progress
C15_Witness ==
    \E p \in Procs :
        /\ screen[p] = "game"
        /\ attempts[p] = MaxLongGame
        /\ outcome[p] \in {"TooLow", "TooHigh"}

C17_BestScoreAbsentOrPositive ==
    /\ [](\A r \in users :
            /\ r.best_score = None \/ r.best_score[1] >= 1
            /\ \A result \in SelectBestScore(users, Some(r.username)) :
                 CurrentBest(result) = r.best_score)
    /\ [][/\ \A r \in users' :
               (\A old \in users : old.username # r.username) =>
                 r.best_score = None
          /\ \A r \in users :
               StoredBest(users', r.username) # {r.best_score} =>
                 \E p \in Procs :
                   /\ screen[p] = "game"
                   /\ outcome'[p] = "Correct"
                   /\ current_user[p] = Some(r.username)
                   /\ attempts'[p] >= 1
                   /\ attempts'[p] = evaluated'[p]
                   /\ StoredBest(users', r.username) = {Some(attempts'[p])}]_vars

\* the main menu of a user who has never won, next to a user whose best
\* score is the least possible
C17_Witness ==
    \E p \in Procs :
        /\ screen[p] = "menu"
        /\ current_user[p] # None
        /\ StoredBest(users, current_user[p][1]) = {None}
        /\ \E r \in users : r.best_score = Some(1)

\* username and best_score of every row
BestScores(us) == {<<r.username, r.best_score>> : r \in us}

\* C18: best_score is written only by a winning guess and only in the row of
\* the user logged in to the winning process.  A win leaves every other row
\* as it was, and no step changes a password_hash.  Starting a game, a guess
\* that does not win, abandoning a game, saving settings, logging in, logging
\* out and viewing the scoreboard leave every best_score as it was.
C18_OnlyAWinWritesBestScore ==
    [][LET winners == {p \in Procs : /\ screen[p] = "game"
                                     /\ outcome'[p] = "Correct"
                                     /\ screen'[p] = "play_again"}
       IN  /\ \A r \in users :
                /\ \E r2 \in users' : /\ r2.id = r.id
                                      /\ r2.username = r.username
                                      /\ r2.password_hash = r.password_hash
                /\ \/ \E p \in winners : current_user[p] = Some(r.username)
                   \/ r \in users'
           /\ \A p \in {"p1"} :
                (\/ screen'[p] = "game" /\ screen[p] # "game"
                 \/ screen[p] = "game" /\ outcome'[p] # "Correct"
                 \/ screen[p] \in {"settings", "login"}
                 \/ Logout(p)
                 \/ ShowScoreboard(p)
                 \/ screen[p] = "scoreboard")
                  => BestScores(users') = BestScores(users)]_vars

\* a first win just recorded for one user while another user's different
\* best score stands
C18_Witness ==
    \E p \in Procs :
        /\ screen[p] = "play_again"
        /\ is_new_best[p]
        /\ current_best[p] = None
        /\ \E r \in users :
             /\ Some(r.username) # current_user[p]
             /\ r.best_score # None
             /\ r.best_score # Some(attempts[p])

\* C19: while a game is in progress its target lies within the range in
\* force, min_range <= target <= max_range.  A guess changes none of target,
\* min_range and max_range; the range changes only by a save on the settings
\* screen, where no game is in progress; and a start draws its target from the
\* range then in force.
C19_TargetWithinRange ==
    /\ [](\A p \in Procs :
            screen[p] = "game" =>
              /\ target_number[p] # None
              /\ min_range[p] <= target_number[p][1]
              /\ target_number[p][1] <= max_range[p])
    /\ [][\A p \in Procs :
            /\ (screen[p] = "game" /\ screen'[p] \in {"game", "play_again"}) =>
                 /\ target_number'[p] = target_number[p]
                 /\ min_range'[p] = min_range[p]
                 /\ max_range'[p] = max_range[p]
            /\ (min_range'[p] # min_range[p] \/ max_range'[p] # max_range[p]) =>
                 /\ screen[p] = "settings"
                 /\ outcome'[p] = "SettingsSaved"
                 /\ screen'[p] = "menu"
            /\ (screen'[p] = "game" /\ screen[p] # "game") =>
                 /\ min_range'[p] = min_range[p]
                 /\ max_range'[p] = max_range[p]
                 /\ target_number'[p] # None
                 /\ target_number'[p][1] \in min_range[p]..max_range[p]]_vars

\* a game in progress in a range that is not the default one, its target at
\* the low end, a guess answered, after an earlier game was won
C19_Witness ==
    \E p \in Procs :
        /\ screen[p] = "game"
        /\ <<min_range[p], max_range[p]>> # <<DefaultMin, DefaultMax>>
        /\ target_number[p] = Some(min_range[p])
        /\ outcome[p] = "TooHigh"
        /\ \E r \in users : r.best_score # None

C21_CurrentUserLoggedIn ==
    /\ [](\A p \in Procs :
            /\ screen[p] \in {"game", "game_won", "play_again"} =>
                 /\ current_user[p] # None
                 /\ \E r \in users : r.username = current_user[p][1]
            /\ screen[p] \in {"login", "register"} <=> current_user[p] = None)
    /\ [][\A p \in Procs :
            /\ current_user'[p] # current_user[p] =>
                 \/ /\ screen[p] = "login"
                    /\ current_user[p] = None
                    /\ outcome'[p] = "WelcomeBack"
                    /\ current_user'[p] # None
                    /\ \E r \in users, w \in ValidPasswords :
                         /\ r.username = current_user'[p][1]
                         /\ r.password_hash = hash_password(w)
                         /\ Login(p, r.username, w)
                 \/ /\ Logout(p)
                    /\ current_user'[p] = None
            /\ screen[p] = "register" =>
                 /\ current_user'[p] = None
                 /\ outcome'[p] = "AccountCreated" =>
                      screen'[p] = "login" /\ users' # users
            /\ (screen[p] = "menu" /\ screen'[p] = "login") =>
                 /\ current_user'[p] = None
                 /\ users' = users
                 /\ min_range'[p] = min_range[p]
                 /\ max_range'[p] = max_range[p]]_vars

\* a game in progress in a range that is not the default one, played by a
\* user who has never won, after another user of this process won and logged
\* out
C21_Witness ==
    \E p \in Procs :
        /\ screen[p] = "game"
        /\ current_user[p] # None
        /\ <<min_range[p], max_range[p]>> # <<DefaultMin, DefaultMax>>
        /\ \E r \in users : /\ Some(r.username) # current_user[p]
                            /\ r.best_score # None
        /\ StoredBest(users, current_user[p][1]) = {None}

====
